---- MODULE Spec2Model ----
(***************************************************************************)
(* The CloudMart resource-tagging dashboard (src/script.py).               *)
(*                                                                         *)
(* The program is a Streamlit script: every user interaction (a filter     *)
(* selection, an edit in the remediation editor) re-runs the whole script  *)
(* from the first line, with the widgets holding their state.  A state of  *)
(* the model is the state of the script's variables at the end of a run;   *)
(* an action is one interaction followed by the complete re-run.           *)
(*                                                                         *)
(* A data frame is a sequence of records (rows).  A missing categorical    *)
(* cell is NULL, a missing numeric cell is NaN.  Costs are whole dollars.  *)
(* Percentages are held as they are displayed (format .2f), in hundredths  *)
(* of a percent: 4000 is "40.00".                                          *)
(***************************************************************************)
EXTENDS Integers, Sequences, FiniteSets, TLC

VARIABLES
    csv,                \* the table read from the file, cost made numeric (lines 7-20)
    df_original,        \* line 23
    df,                 \* line 16, mutated at line 121
    error,              \* "none", or the exception that stopped the run
    lowest_compliance,  \* line 127
    untagged_df,        \* line 135
    cost_by_service,    \* line 176
    service_filter,     \* line 185 (widget state)
    region_filter,      \* line 188 (widget state)
    dept_filter,        \* line 191 (widget state)
    filtered_df,        \* lines 194-200
    editable_df,        \* line 211 (the editor's table)
    interactions        \* number of widget interactions so far

vars == <<csv, df_original, df, error, lowest_compliance, untagged_df,
          cost_by_service, service_filter, region_filter, dept_filter,
          filtered_df, editable_df, interactions>>

-----------------------------------------------------------------------------
(* Bounds of the model. *)

\* rows of the loaded table, specification Spec
MaxRows == 2
\* widget interactions (each followed by a re-run) in one behaviour
MaxInteractions == 2
\* rows of the loaded table, specification SpecView
MaxViewRows == 2
\* rows of the loaded table, specification SpecGroup
MaxGroupRows == 2
\* rows of the loaded table, specification SpecRank (more than head(5) keeps)
MaxRankRows == 6

-----------------------------------------------------------------------------
(* Cells. *)

\* a missing categorical cell (None / NaN in an object column)
NULL == "<null>"

\* a missing numeric cell (NaN); every number of the model proper is >= 0
NaN == -1

\* what a query holds when the script reports that there is nothing to
\* report (the st.info branch of line 101)
NoEntity == "<none>"

\* what a variable holds when the statement assigning it raised or was
\* never reached
Unset == "<unset>"

\* ascending order of the strings of the model, as Python compares them
Lexicographic ==
    <<"Apollo", "CC1", "Dev", "EC2", "Eng", "No", "Ops", "Prod", "S3", "Yes",
      "Zeus", "alice", "eu-west-1", "terraform", "us-east-1">>

RankTable ==
    [s \in {Lexicographic[i] : i \in 1..Len(Lexicographic)} |->
        CHOOSE i \in 1..Len(Lexicographic) : Lexicographic[i] = s]

Rank(s) == RankTable[s]

-----------------------------------------------------------------------------
(* Arithmetic. *)

\* n / d rounded to the nearest whole number (d > 0): the rounding of
\* format(x, ".2f") once x is scaled to hundredths (halves, which no table
\* of the model produces, go up)
RoundDiv(n, d) == (2 * n + d) \div (2 * d)

\* numerator / denominator * 100 as displayed, in hundredths of a percent
Pct(numerator, denominator) == RoundDiv(numerator * 10000, denominator)

\* Series.sum(): a missing cost is skipped
RECURSIVE SumCost(_)
SumCost(d) ==
    IF Len(d) = 0 THEN 0
    ELSE (IF Head(d).MonthlyCostUSD = NaN THEN 0 ELSE Head(d).MonthlyCostUSD)
         + SumCost(Tail(d))

IsUntagged(r) == r.Tagged = "No"
IsTagged(r) == r.Tagged = "Yes"

\* d[d["Tagged"] == "No"]
Untagged(d) == SelectSeq(d, IsUntagged)
\* d[d["Tagged"] == "Yes"]
TaggedRows(d) == SelectSeq(d, IsTagged)

-----------------------------------------------------------------------------
(* Task set 3: the tag completeness score. *)

tag_fields == <<"Department", "Project", "Owner", "CostCenter", "CreatedBy">>

\* df[tag_fields].notnull().sum(axis=1), for one row
TagScoreOf(r) ==
    Cardinality({i \in 1..Len(tag_fields) : r[tag_fields[i]] # NULL})

\* df["TagScore"] = ...: every row gains the column
WithTagScore(d) ==
    [i \in 1..Len(d) |->
        [ResourceID |-> d[i].ResourceID, Service |-> d[i].Service,
         Region |-> d[i].Region, Environment |-> d[i].Environment,
         Department |-> d[i].Department, Project |-> d[i].Project,
         Owner |-> d[i].Owner, CostCenter |-> d[i].CostCenter,
         CreatedBy |-> d[i].CreatedBy, Tagged |-> d[i].Tagged,
         MonthlyCostUSD |-> d[i].MonthlyCostUSD,
         TagScore |-> TagScoreOf(d[i])]]

-----------------------------------------------------------------------------
(* Grouping: df.groupby(keys)["MonthlyCostUSD"].sum().                     *)
(* groupby drops the rows whose key is missing (dropna=True) and returns   *)
(* the groups in ascending key order (sort=True).                          *)

\* the distinct non-missing values of a column
GroupKeys(d, col) == {d[i][col] : i \in 1..Len(d)} \ {NULL}

RECURSIVE SortKeys(_)
SortKeys(S) ==
    IF S = {} THEN <<>>
    ELSE LET m == CHOOSE x \in S : \A y \in S : Rank(x) <= Rank(y)
         IN  <<m>> \o SortKeys(S \ {m})

\* the first row position at which key k appears in column col
FirstRow(d, col, k) ==
    CHOOSE i \in 1..Len(d) :
        /\ d[i][col] = k
        /\ \A j \in 1..(i - 1) : d[j][col] # k

RECURSIVE SortByFirstRow(_, _, _)
SortByFirstRow(d, col, S) ==
    IF S = {} THEN <<>>
    ELSE LET m == CHOOSE x \in S :
                      \A y \in S : FirstRow(d, col, x) <= FirstRow(d, col, y)
         IN  <<m>> \o SortByFirstRow(d, col, S \ {m})

\* the keys of a grouped result as groupby(sort=False) would order them
GroupOrderByAppearance(d, col) == SortByFirstRow(d, col, GroupKeys(d, col))

\* the keys of a grouped result, in the order of the result
GroupOrder(d, col) == SortKeys(GroupKeys(d, col))

\* d.groupby(col)["MonthlyCostUSD"].sum(): one entry per group
GroupSum(d, col) ==
    LET ks == GroupOrder(d, col)
    IN  [j \in 1..Len(ks) |->
            [key |-> ks[j],
             sum |-> SumCost(SelectSeq(d, LAMBDA r : r[col] = ks[j]))]]

\* the distinct key pairs of two columns, both present
GroupKeys2(d, c1, c2) ==
    {<<d[i][c1], d[i][c2]>> : i \in 1..Len(d)}
        \ {p \in {<<d[i][c1], d[i][c2]>> : i \in 1..Len(d)} :
               p[1] = NULL \/ p[2] = NULL}

PairBefore(p, q) ==
    \/ Rank(p[1]) < Rank(q[1])
    \/ Rank(p[1]) = Rank(q[1]) /\ Rank(p[2]) <= Rank(q[2])

RECURSIVE SortPairs(_)
SortPairs(S) ==
    IF S = {} THEN <<>>
    ELSE LET m == CHOOSE x \in S : \A y \in S : PairBefore(x, y)
         IN  <<m>> \o SortPairs(S \ {m})

\* d.groupby([c1, c2])["MonthlyCostUSD"].sum().reset_index()
GroupSum2(d, c1, c2) ==
    LET ks == SortPairs(GroupKeys2(d, c1, c2))
    IN  [j \in 1..Len(ks) |->
            [key |-> ks[j],
             sum |-> SumCost(SelectSeq(d,
                        LAMBDA r : r[c1] = ks[j][1] /\ r[c2] = ks[j][2]))]]

\* the total of a grouped result's sums
RECURSIVE SumOfGroups(_)
SumOfGroups(g) ==
    IF Len(g) = 0 THEN 0 ELSE Head(g).sum + SumOfGroups(Tail(g))

\* Series.max() of a non-empty grouped result (g is evaluated once, as the
\* value h)
MaxSum(g) ==
    CHOOSE m \in UNION {{h[i].sum : i \in 1..Len(h)} : h \in {g}} :
        \A n \in UNION {{h[i].sum : i \in 1..Len(h)} : h \in {g}} : n <= m

\* the label of the first entry of h whose sum is m
FirstWithSum(h, m) ==
    h[CHOOSE k \in 1..Len(h) :
          /\ h[k].sum = m
          /\ \A j \in 1..(k - 1) : h[j].sum # m].key

\* Series.idxmax() of a non-empty grouped result: the label of the first
\* occurrence of the maximum
IdxMax(g) ==
    CHOOSE key \in UNION {{FirstWithSum(h, m) : m \in {MaxSum(h)}} :
                             h \in {g}} : TRUE

-----------------------------------------------------------------------------
(* Task set 3.2: the lowest tag completeness.                              *)
(* sort_values(by="TagScore") sorts with kind="quicksort", which is not a  *)
(* stable sort: the result is ascending by TagScore and the order among    *)
(* equal scores is whatever the build's sort produces.                     *)

\* rows kept by head(5)
HeadRows == 5

LowestColumns(r) ==
    [ResourceID |-> r.ResourceID, Service |-> r.Service,
     Department |-> r.Department, TagScore |-> r.TagScore,
     MonthlyCostUSD |-> r.MonthlyCostUSD]

\* every sequence of k row positions an ascending sort of d by TagScore can
\* start with, the positions drawn from S
RECURSIVE SortedPrefixes(_, _, _)
SortedPrefixes(d, S, k) ==
    IF k = 0 \/ S = {} THEN {<<>>}
    ELSE LET lowest == {i \in S : \A j \in S : d[i].TagScore <= d[j].TagScore}
         IN  UNION {{<<i>> \o t : t \in SortedPrefixes(d, S \ {i}, k - 1)} :
                        i \in lowest}

\* the tables line 127 can produce for the scored table d
LowestOutcomes(d) ==
    {[j \in 1..Len(p) |-> LowestColumns(d[p[j]])] :
        p \in SortedPrefixes(d, 1..Len(d), HeadRows)}

-----------------------------------------------------------------------------
(* Task set 4.3: the cost per service.                                     *)
(* The grouped result is re-ordered by .sort_values("MonthlyCostUSD",      *)
(* ascending=True), again with kind="quicksort": ascending by sum, the     *)
(* order among equal sums being whatever the build's sort produces.        *)

\* every order of the entries of g at the positions S that is ascending by
\* sum
RECURSIVE SortedBySum(_, _)
SortedBySum(g, S) ==
    IF S = {} THEN {<<>>}
    ELSE LET lowest == {i \in S : \A j \in S : g[i].sum <= g[j].sum}
         IN  UNION {{<<g[i]>> \o t : t \in SortedBySum(g, S \ {i})} :
                        i \in lowest}

\* the tables line 176 can produce for the table d
CostByServiceOutcomes(d) ==
    UNION {SortedBySum(g, 1..Len(g)) : g \in {GroupSum(d, "Service")}}

-----------------------------------------------------------------------------
(* Task set 4.5: the filters. *)

\* the options of the three multiselects (lines 185, 188, 191)
ServiceOptions(d) == {d[i].Service : i \in 1..Len(d)}
RegionOptions(d) == {d[i].Region : i \in 1..Len(d)}
DeptOptions(d) == {d[i].Department : i \in 1..Len(d)} \ {NULL}

\* a filter step with the "if selection:" guard left out
FilterStepUnguarded(view, col, selection) ==
    SelectSeq(view, LAMBDA r : r[col] \in selection)

\* one step of lines 195-200: if selection: view = view[view[col].isin(selection)]
FilterStep(view, col, selection) ==
    IF selection # {}
    THEN SelectSeq(view, LAMBDA r : r[col] \in selection)
    ELSE view

\* lines 194-200
ApplyFilters(d, services, regions, depts) ==
    FilterStep(FilterStep(FilterStep(d, "Service", services),
                          "Region", regions),
               "Department", depts)

-----------------------------------------------------------------------------
(* One run of the script over the loaded table c.                          *)

\* line 104: df.groupby("Project")["MonthlyCostUSD"].sum()
project_cost_of(c) == GroupSum(c, "Project")

\* The exception that stops the run, if any.  Line 105 takes idxmax() of
\* project_cost with no guard, and idxmax() of an empty Series raises
\* ValueError; project_cost is empty exactly when it has no group key.
\* Line 185 gives the Service multiselect the default ["EC2"], and the
\* widget raises when a default is not among its options.
RunError(c) ==
    IF GroupKeys(c, "Project") = {} THEN "ValueError"
    ELSE IF "EC2" \notin ServiceOptions(c) THEN "StreamlitAPIException"
    ELSE "none"

\* The object a .copy() evaluates to: the fresh one, never its source.
CopyTargetAlias(source, fresh) == source
CopyTarget(source, fresh) == fresh

\* the object the name df_original is bound to (line 23: df.copy())
OriginalObject == CopyTarget("df", "df_original")

\* The two table objects at the end of the run.  Line 16 binds df, line 23
\* fills the object of df_original with df's rows, and line 121 (reached
\* unless line 105 raised) adds the TagScore column to the object of df.
HeapAtEnd(c, raised) ==
    LET h16 == [o \in {"df", "df_original"} |-> IF o = "df" THEN c ELSE <<>>]
        h23 == [h16 EXCEPT ![OriginalObject] = h16["df"]]
    IN  IF raised = "ValueError"
        THEN h23
        ELSE [h23 EXCEPT !["df"] = WithTagScore(@)]

\* The script's variables at the end of a run over c.  A table the run never
\* assigned (the run stopped above its line) is left empty.
Run(c) ==
    LET raised == RunError(c)
        heap == HeapAtEnd(c, raised)
    IN  [error |-> raised,
         df_original |-> heap[OriginalObject],
         df |-> heap["df"],
         \* line 135
         untagged_df |-> IF raised = "ValueError" THEN <<>>
                         ELSE Untagged(heap["df"])]

\* line 127, reached unless line 105 raised
RunLowestOutcomes(run) ==
    IF run.error = "ValueError" THEN {<<>>} ELSE LowestOutcomes(run.df)

\* line 176, reached unless line 105 raised
RunCostByService(run) ==
    IF run.error = "ValueError" THEN {<<>>} ELSE CostByServiceOutcomes(run.df)

\* lines 194-200, reached when nothing raised
RunFiltered(run, services, regions, depts) ==
    IF run.error = "none"
    THEN ApplyFilters(run.df, services, regions, depts)
    ELSE <<>>

-----------------------------------------------------------------------------
(* The tables the model loads. *)

BaseRow ==
    [ResourceID |-> NaN, Service |-> "EC2", Region |-> "us-east-1",
     Environment |-> "Prod", Department |-> "Eng", Project |-> "Apollo",
     Owner |-> "alice", CostCenter |-> "CC1", CreatedBy |-> "terraform",
     Tagged |-> "No", MonthlyCostUSD |-> 0]

\* every table of at most n rows drawn from Rows; ResourceID is the row's
\* position in the file
Tables(Rows, n) ==
    UNION {{[i \in 1..k |-> [f[i] EXCEPT !.ResourceID = i]] :
               f \in [1..k -> Rows]} : k \in 0..n}

\* Spec: tagging status and cost vary, and one row is of a second service
MainRows ==
    {[BaseRow EXCEPT !.Tagged = t, !.MonthlyCostUSD = c] :
        t \in {"Yes", "No"}, c \in {0, 50}}
    \cup
    {[BaseRow EXCEPT !.Service = "S3", !.Tagged = "Yes"]}

\* SpecView: the three filtered columns vary; an EC2 row costs 50 and an S3
\* row nothing
ViewRows ==
    {[BaseRow EXCEPT !.Service = s, !.Region = r, !.Department = d,
                     !.MonthlyCostUSD = IF s = "EC2" THEN 50 ELSE 0] :
        s \in {"EC2", "S3"}, r \in {"us-east-1", "eu-west-1"},
        d \in {NULL, "Eng", "Ops"}}

\* SpecGroup: rows that vary the tagging status, cost and department, and
\* rows that vary the cost and project
GroupRows ==
    {[BaseRow EXCEPT !.Tagged = t, !.MonthlyCostUSD = c, !.Department = d] :
        t \in {"Yes", "No"}, c \in {1, 2}, d \in {NULL, "Eng", "Ops"}}
    \cup
    {[BaseRow EXCEPT !.MonthlyCostUSD = c, !.Project = p] :
        c \in {1, 2}, p \in {NULL, "Apollo", "Zeus"}}

\* SpecRank: no tag field filled, two filled, all five filled
RankRows ==
    {[BaseRow EXCEPT !.Department = NULL, !.Project = NULL, !.Owner = NULL,
                     !.CostCenter = NULL, !.CreatedBy = NULL],
     [BaseRow EXCEPT !.Department = NULL, !.CostCenter = NULL,
                     !.CreatedBy = NULL],
     BaseRow}

\* SpecScenario: the four-row table of the specification's scenarios
ScenarioTable ==
    <<[BaseRow EXCEPT !.ResourceID = 1, !.Tagged = "Yes",
                      !.MonthlyCostUSD = 100, !.Department = "Eng"],
      [BaseRow EXCEPT !.ResourceID = 2, !.Tagged = "No",
                      !.MonthlyCostUSD = 50, !.Department = "Eng"],
      [BaseRow EXCEPT !.ResourceID = 3, !.Tagged = "No",
                      !.MonthlyCostUSD = 30, !.Department = "Ops"],
      [BaseRow EXCEPT !.ResourceID = 4, !.Tagged = "Yes",
                      !.MonthlyCostUSD = 20, !.Department = "Ops"]>>

-----------------------------------------------------------------------------
(* The state after the first run over a table of Data. *)

InitWith(Data) ==
    /\ csv \in Data
    /\ \E run \in {Run(csv)} :
           /\ error = run.error
           /\ df_original = run.df_original
           /\ df = run.df
           /\ lowest_compliance \in RunLowestOutcomes(run)
           /\ untagged_df = run.untagged_df
           /\ cost_by_service \in RunCostByService(run)
           \* line 185: default=["EC2"]
           /\ service_filter = (IF run.error = "none" THEN {"EC2"} ELSE {})
           /\ region_filter = {}
           /\ dept_filter = {}
           /\ filtered_df = RunFiltered(run, service_filter, region_filter,
                                        dept_filter)
           \* line 211: the editor opens on untagged_df
           /\ editable_df = (IF run.error = "none" THEN run.untagged_df
                             ELSE <<>>)
    /\ interactions = 0

Init == InitWith(Tables(MainRows, MaxRows))
InitView == InitWith(Tables(ViewRows, MaxViewRows))
InitGroup == InitWith(Tables(GroupRows, MaxGroupRows))
InitRank == InitWith(Tables(RankRows, MaxRankRows))
InitScenario == InitWith({ScenarioTable})

-----------------------------------------------------------------------------
(* The re-run that follows every interaction.  The file is the same, so    *)
(* every table computed from it alone is computed again to the same value; *)
(* the sorts of lines 127 and 176 are the same build sorting the same      *)
(* input.                                                                  *)

Rerun ==
    /\ csv' = csv
    /\ \E run \in {Run(csv)} :
           /\ error' = run.error
           /\ df_original' = run.df_original
           /\ df' = run.df
           /\ lowest_compliance' = lowest_compliance
           /\ untagged_df' = run.untagged_df
           /\ cost_by_service' = cost_by_service
           /\ filtered_df' = RunFiltered(run, service_filter', region_filter',
                                         dept_filter')

\* the widgets are on the page only when the run reached them
WidgetsShown == error = "none" /\ interactions < MaxInteractions

\* what every interaction leaves behind it
Interaction ==
    /\ interactions' = interactions + 1
    /\ Rerun

(* The three multiselects. *)

SetServiceFilter ==
    /\ WidgetsShown
    /\ \E S \in SUBSET ServiceOptions(df) :
          /\ S # service_filter
          /\ service_filter' = S
    /\ UNCHANGED <<region_filter, dept_filter, editable_df>>
    /\ Interaction

SetRegionFilter ==
    /\ WidgetsShown
    /\ \E S \in SUBSET RegionOptions(df) :
          /\ S # region_filter
          /\ region_filter' = S
    /\ UNCHANGED <<service_filter, dept_filter, editable_df>>
    /\ Interaction

SetDeptFilter ==
    /\ WidgetsShown
    /\ \E S \in SUBSET DeptOptions(df) :
          /\ S # dept_filter
          /\ dept_filter' = S
    /\ UNCHANGED <<service_filter, region_filter, editable_df>>
    /\ Interaction

(* The remediation editor (line 211): st.data_editor over untagged_df with *)
(* num_rows="dynamic" and no disabled column.  Every cell of every column  *)
(* can be edited, TagScore included; rows can be added and removed.        *)

\* the categorical edits the model makes: <<column, value typed>>
CellEdits ==
    {<<"Tagged", "Yes">>, <<"Tagged", "No">>,
     <<"Department", NULL>>, <<"Department", "Eng">>, <<"Department", "Ops">>}

\* the numeric edits the model makes: <<column, value typed>>
NumberEdits == {<<"MonthlyCostUSD", 0>>, <<"TagScore", 0>>}

\* the row the editor appends: every cell empty
EmptyRow ==
    [ResourceID |-> NaN, Service |-> NULL, Region |-> NULL,
     Environment |-> NULL, Department |-> NULL, Project |-> NULL,
     Owner |-> NULL, CostCenter |-> NULL, CreatedBy |-> NULL,
     Tagged |-> NULL, MonthlyCostUSD |-> NaN, TagScore |-> NaN]

RemoveAt(s, i) == [j \in 1..(Len(s) - 1) |-> IF j < i THEN s[j] ELSE s[j + 1]]

EditorFrame ==
    /\ UNCHANGED <<service_filter, region_filter, dept_filter>>
    /\ Interaction

EditCell ==
    /\ WidgetsShown
    /\ \E i \in 1..Len(editable_df), e \in CellEdits :
          /\ editable_df[i][e[1]] # e[2]
          /\ editable_df' = [editable_df EXCEPT ![i][e[1]] = e[2]]
    /\ EditorFrame

EditNumber ==
    /\ WidgetsShown
    /\ \E i \in 1..Len(editable_df), e \in NumberEdits :
          /\ editable_df[i][e[1]] # e[2]
          /\ editable_df' = [editable_df EXCEPT ![i][e[1]] = e[2]]
    /\ EditorFrame

AddRow ==
    /\ WidgetsShown
    /\ editable_df' = Append(editable_df, EmptyRow)
    /\ EditorFrame

RemoveRow ==
    /\ WidgetsShown
    /\ \E i \in 1..Len(editable_df) : editable_df' = RemoveAt(editable_df, i)
    /\ EditorFrame

\* the interactions with the filters alone
NextView ==
    \/ SetServiceFilter
    \/ SetRegionFilter
    \/ SetDeptFilter

Next ==
    \/ SetServiceFilter
    \/ SetRegionFilter
    \/ SetDeptFilter
    \/ EditCell
    \/ EditNumber
    \/ AddRow
    \/ RemoveRow

Spec == Init /\ [][Next]_vars
SpecScenario == InitScenario /\ [][Next]_vars
SpecView == InitView /\ [][NextView]_vars
SpecGroup == InitGroup /\ [][NextView]_vars
SpecRank == InitRank /\ [][NextView]_vars

-----------------------------------------------------------------------------
(* What the script computes from its tables, as functions of the state.    *)
(* Lines 29-104 run in every run; lines 106-183 run unless line 105        *)
(* raised; lines 186-301 run when nothing raised.                          *)

(* Task set 1. *)

\* lines 62-64
percent_untagged ==
    IF Len(df) > 0 THEN Pct(Len(Untagged(df)), Len(df)) ELSE 0

(* Task set 2. *)

\* line 73
total_cost == SumCost(df)
\* line 77
untagged_cost == SumCost(Untagged(df))
\* line 85
cost_by_tag == GroupSum(df, "Tagged")
\* line 90
percent_untagged_cost ==
    IF total_cost > 0 THEN Pct(untagged_cost, total_cost) ELSE 0

\* line 94
untagged_by_dept == GroupSum(Untagged(df), "Department")
\* lines 95-101
most_untagged_dept ==
    IF Len(untagged_by_dept) > 0 THEN IdxMax(untagged_by_dept) ELSE NoEntity

\* line 104
project_cost == project_cost_of(df)
\* line 105: no guard; on an empty project_cost idxmax() raises and the
\* name is never bound
highest_cost_project ==
    IF Len(project_cost) = 0 THEN Unset ELSE IdxMax(project_cost)

\* line 111
env_tagged == GroupSum2(df, "Environment", "Tagged")

(* Task set 4. *)

\* line 164
env_cost == GroupSum(df, "Environment")
\* line 170
dept_cost == GroupSum2(df, "Department", "Tagged")

(* Task set 5. *)

\* line 227
tagged_df == TaggedRows(df)
\* line 228: pd.concat([tagged_df, editable_df], ignore_index=True)
full_remediated == tagged_df \o editable_df

\* line 242
before_untagged_count == Len(Untagged(df_original))
\* line 243
before_untagged_cost == SumCost(Untagged(df_original))
\* line 244
before_untagged_pct_cost ==
    IF SumCost(df_original) > 0
    THEN Pct(before_untagged_cost, SumCost(df_original))
    ELSE 0

\* line 247
after_untagged_count == Len(Untagged(editable_df))
\* line 248, without its Tagged == "No" mask
after_untagged_cost_unmasked == SumCost(editable_df)
\* line 248
after_untagged_cost == SumCost(Untagged(editable_df))
\* line 249: the denominator is the cost of the editor's rows
after_untagged_pct_cost ==
    IF SumCost(editable_df) > 0
    THEN Pct(after_untagged_cost, SumCost(editable_df))
    ELSE 0

\* line 254
count_change == after_untagged_count - before_untagged_count
\* line 259
cost_improvement == before_untagged_cost - after_untagged_cost
\* line 264: the difference of the two percentages, then format(.2f)
pct_point_improvement ==
    LET bt == SumCost(df_original)
        at == SumCost(editable_df)
        bn == IF bt > 0 THEN before_untagged_cost ELSE 0
        bd == IF bt > 0 THEN bt ELSE 1
        an == IF at > 0 THEN after_untagged_cost ELSE 0
        ad == IF at > 0 THEN at ELSE 1
    IN  RoundDiv(10000 * (bn * ad - an * bd), bd * ad)

\* A numpy integer divided by the Python integer 0: no exception, the
\* result is nan (0 / 0; a count never exceeds the length it is divided by).
CountPct(count, length) ==
    IF length = 0 THEN NaN ELSE Pct(count, length)

\* line 288
summary_before_pct == CountPct(before_untagged_count, Len(df_original))
\* line 298
summary_after_pct == CountPct(after_untagged_count, Len(editable_df))

-----------------------------------------------------------------------------
(* The claims.                                                             *)

\* metrics(subset) of the specification's Remediation Comparator
Metrics(d) ==
    [untagged_count |-> Len(Untagged(d)),
     untagged_cost |-> SumCost(Untagged(d)),
     pct_untagged_cost |-> IF SumCost(d) > 0
                           THEN Pct(SumCost(Untagged(d)), SumCost(d))
                           ELSE 0]

\* the run reached the remediation section (lines 206-301)
Completed == error = "none"

\* C1: the 'after' metrics of the comparison are metrics(combined_after),
\* combined_after being the original rows with Tagged == "Yes" together with
\* the edited rows; the denominator of the after percentage is the total
\* cost of combined_after.
C1_AfterIsMetricsOfCombined ==
    Completed =>
        /\ after_untagged_count = Metrics(full_remediated).untagged_count
        /\ after_untagged_cost = Metrics(full_remediated).untagged_cost
        /\ after_untagged_pct_cost = Metrics(full_remediated).pct_untagged_cost

\* C2: every percentage-of-total the program computes is 0 when its
\* denominator is 0: the untagged-resource and untagged-cost percentages,
\* the before and after pct_untagged_cost, and the summary's percentages of
\* the original and of the edited subset.
C2_ZeroDenominatorGivesZero ==
    /\ Len(df) = 0 => percent_untagged = 0
    /\ total_cost = 0 => percent_untagged_cost = 0
    /\ Completed =>
        /\ SumCost(df_original) = 0 => before_untagged_pct_cost = 0
        /\ SumCost(editable_df) = 0 => after_untagged_pct_cost = 0
        /\ Len(df_original) = 0 => summary_before_pct = 0
        /\ Len(editable_df) = 0 => summary_after_pct = 0

\* C3: each of the two max-cost queries gives the 'no such entity' outcome,
\* and the run does not raise, when the grouped result it takes the argmax
\* of is empty.
C3_EmptyGroupGivesNoEntity ==
    /\ Len(untagged_by_dept) = 0 => most_untagged_dept = NoEntity
    /\ Len(project_cost) = 0 =>
        /\ error # "ValueError"
        /\ highest_cost_project = NoEntity

\* C4: in every reachable state the original snapshot is the table that was
\* loaded, whatever the editor did and whatever was derived from the working
\* table, so the 'before' metrics are those of the loaded table.
C4_OriginalIsTheLoadedTable ==
    /\ df_original = csv
    /\ before_untagged_count = Metrics(csv).untagged_count
    /\ before_untagged_cost = Metrics(csv).untagged_cost
    /\ before_untagged_pct_cost = Metrics(csv).pct_untagged_cost

\* C4's case: the editor has been used twice, its table differs from the
\* untagged rows it opened on, and the working table has gained TagScore.
C4_Witness ==
    /\ Completed
    /\ interactions >= 2
    /\ editable_df # untagged_df
    /\ Len(df_original) > 0
    /\ df # df_original

\* C5: every row of the working table and of the edited subset has a
\* TagScore in 0..5 equal to the number of its non-missing tag fields.
C5_TagScoreIsTheCount ==
    Completed =>
        /\ \A i \in 1..Len(df) :
              df[i].TagScore \in 0..5 /\ df[i].TagScore = TagScoreOf(df[i])
        /\ \A i \in 1..Len(editable_df) :
              /\ editable_df[i].TagScore \in 0..5
              /\ editable_df[i].TagScore = TagScoreOf(editable_df[i])

\* C6: for every grouping the program uses, the group sums of
\* MonthlyCostUSD add up to the sum of MonthlyCostUSD over all rows of the
\* grouped table, rows with a missing key or a missing cost included.
C6_GroupSumsAddUpToTotal ==
    /\ SumOfGroups(cost_by_tag) = SumCost(df)
    /\ SumOfGroups(project_cost) = SumCost(df)
    /\ SumOfGroups(untagged_by_dept) = SumCost(Untagged(df))
    /\ error # "ValueError" =>
        /\ SumOfGroups(env_tagged) = SumCost(df)
        /\ SumOfGroups(env_cost) = SumCost(df)
        /\ SumOfGroups(dept_cost) = SumCost(df)
        /\ SumOfGroups(cost_by_service) = SumCost(df)

\* the selections as one predicate on a row
InView(r) ==
    /\ service_filter # {} => r.Service \in service_filter
    /\ region_filter # {} => r.Region \in region_filter
    /\ dept_filter # {} => r.Department \in dept_filter

\* C7: the filtered view is exactly the rows whose value is in the
\* selection for every field with a non-empty selection; with all three
\* selections empty it is the whole table; the table itself is unchanged.
C7_ViewIsTheConjunction ==
    Completed =>
        /\ filtered_df = SelectSeq(df, InView)
        /\ (service_filter = {} /\ region_filter = {} /\ dept_filter = {})
              => filtered_df = df
        /\ df = WithTagScore(csv)

\* C7's case: all three selections are non-empty and the view keeps some
\* rows and drops others.
C7_Witness ==
    /\ Completed
    /\ service_filter # {} /\ region_filter # {} /\ dept_filter # {}
    /\ Len(filtered_df) > 0
    /\ Len(filtered_df) < Len(df)

\* the values the scenario expects after remediation
ScenarioOutcome ==
    /\ after_untagged_count = 0
    /\ after_untagged_cost = 0
    /\ cost_improvement = 80
    /\ pct_point_improvement = 4000
    /\ count_change = after_untagged_count - before_untagged_count

\* the editor holds the $50 Eng row alone (the $30 Ops row removed) and
\* row is that row as the editor shows it
EditorHoldsOnly(row) ==
    /\ Completed
    /\ csv = ScenarioTable
    /\ editable_df = <<row>>

\* C8 as claimed: for the four-row table, setting Department on the $50 Eng
\* row and removing the $30 Ops row yields after.untagged_count = 0,
\* after.untagged_cost = 0, cost_delta = 80, pct_point_delta = 40.00 and
\* count_delta = after.count - before.count.
C8_DepartmentSetAndRowRemoved ==
    \A d \in {"Eng", "Ops"} :
        EditorHoldsOnly([untagged_df[1] EXCEPT !.Department = d])
            => ScenarioOutcome

\* C8 as amended: those values are what the comparison shows when the edit
\* of the $50 Eng row also sets its Tagged cell to "Yes".
C8_TaggedSetAndRowRemoved ==
    \A d \in {"Eng", "Ops"} :
        EditorHoldsOnly([untagged_df[1] EXCEPT !.Department = d,
                                               !.Tagged = "Yes"])
            => ScenarioOutcome /\ count_change = -2

\* C8's case: the $50 Eng row marked tagged, the $30 Ops row removed.
C8_Witness ==
    /\ EditorHoldsOnly([untagged_df[1] EXCEPT !.Tagged = "Yes"])
    /\ interactions = 2

\* the groups of g whose sum is the maximum
Tied(g) ==
    UNION {IF Len(h) = 0 THEN {}
           ELSE UNION {{h[i].key : i \in {j \in 1..Len(h) : h[j].sum = m}} :
                          m \in {MaxSum(h)}} : h \in {g}}

\* C9 as claimed: among the groups tied for the maximum, each max-cost query
\* selects the one whose first row comes earliest in the table.
C9_TieGoesToFirstEncountered ==
    /\ Len(untagged_by_dept) > 0 =>
        /\ most_untagged_dept \in Tied(untagged_by_dept)
        /\ \A k \in Tied(untagged_by_dept) :
              FirstRow(Untagged(df), "Department", most_untagged_dept)
                  <= FirstRow(Untagged(df), "Department", k)
    /\ Len(project_cost) > 0 =>
        /\ highest_cost_project \in Tied(project_cost)
        /\ \A k \in Tied(project_cost) :
              FirstRow(df, "Project", highest_cost_project)
                  <= FirstRow(df, "Project", k)

\* C9 as amended: among the groups tied for the maximum, each max-cost query
\* selects the one whose key is first in ascending key order, wherever its
\* rows are in the table.
C9_TieGoesToSmallestKey ==
    /\ Len(untagged_by_dept) > 0 =>
        \A selected \in {most_untagged_dept}, tied \in {Tied(untagged_by_dept)} :
            /\ selected \in tied
            /\ \A k \in tied : Rank(selected) <= Rank(k)
    /\ Len(project_cost) > 0 =>
        \A selected \in {highest_cost_project}, tied \in {Tied(project_cost)} :
            /\ selected \in tied
            /\ \A k \in tied : Rank(selected) <= Rank(k)

\* C9's case: two departments tie for the most untagged cost and the one
\* selected is not the one met first in the table.
C9_Witness ==
    /\ Completed
    /\ Cardinality(Tied(untagged_by_dept)) >= 2
    /\ \E k \in Tied(untagged_by_dept) :
          FirstRow(Untagged(df), "Department", k)
              < FirstRow(Untagged(df), "Department", most_untagged_dept)

\* the position in the loaded table of the k-th row of the ranking
RankedRow(k) == lowest_compliance[k].ResourceID
Ranked == {RankedRow(k) : k \in 1..Len(lowest_compliance)}

\* C10: the ranking is the first 5 rows (all, if fewer) of the table sorted
\* ascending by TagScore with ties in original row order: returned rows of
\* equal TagScore are in table order, and no omitted row has a lower
\* TagScore than a returned row, or an equal TagScore and an earlier
\* position.
C10_RankingIsStable ==
    error # "ValueError" =>
        /\ Len(lowest_compliance) = (IF Len(df) < HeadRows THEN Len(df)
                                     ELSE HeadRows)
        /\ \A j, k \in 1..Len(lowest_compliance) :
              j < k =>
                  \/ lowest_compliance[j].TagScore < lowest_compliance[k].TagScore
                  \/ /\ lowest_compliance[j].TagScore = lowest_compliance[k].TagScore
                     /\ RankedRow(j) < RankedRow(k)
        /\ \A i \in (1..Len(df)) \ Ranked :
              \A k \in 1..Len(lowest_compliance) :
                  \/ df[i].TagScore > lowest_compliance[k].TagScore
                  \/ /\ df[i].TagScore = lowest_compliance[k].TagScore
                     /\ i > RankedRow(k)

====
